---- MODULE Spec2Model ----
(***************************************************************************)
(* Objective-reduction pipeline of ML_ManyObjective_Duro.ipynb:            *)
(* compute_correlation_matrix, compute_eigenvalues_and_eigenvectors,       *)
(* eigenvalue_analysis, reduced_correlation_matrix_analysis,               *)
(* selection_scheme, compute_error and main.                               *)
(*                                                                         *)
(* Numbers.  Python lists are sequences whose elements are 0-based         *)
(* objective indices; numpy arrays are functions over 0..n-1.  A real      *)
(* number that numpy obtains as c / sqrt(v1 * v2) is kept exactly as the   *)
(* record [num |-> c, den2 |-> v1 * v2]; den2 = 0 is the NaN that numpy    *)
(* produces for 0/0.  Comparisons are made on squares, so no rounding is   *)
(* modelled: floating-point rounding of the ratios is outside the model.   *)
(***************************************************************************)
EXTENDS Integers, Sequences, FiniteSets, TLC

\* Largest number of objectives (columns of the sample matrix).
MaxObj == 3

\* Sample columns the inputs are built from (4 samples each): a constant
\* column (zero variance), three pairwise uncorrelated columns, and one
\* column that correlates with each of those three at |r| = 1/sqrt(3).
ObjectiveColumns ==
    { <<0, 0, 0, 0>>, <<0, 0, 1, 1>>, <<0, 1, 0, 1>>, <<0, 1, 1, 0>>, <<0, 0, 0, 1>> }

\* Correlation thresholds p/q tried by the group finder on its own.
CorThresholds ==
    { [p |-> 0, q |-> 1], [p |-> 1, q |-> 2], [p |-> 1, q |-> 1], [p |-> 3, q |-> 2] }

\* Off-diagonal similarity values -1, 0, 1/2, 1 of a hand-made similarity matrix.
SimValues ==
    { [num |-> -2, den2 |-> 4], [num |-> 0, den2 |-> 4],
      [num |-> 1, den2 |-> 4], [num |-> 2, den2 |-> 4] }

VARIABLES
    pc,                              \* position in main / in the running function
    exception,                       \* name of the exception that ended the run
    data,                            \* sample matrix, one column per objective
    corr_matrix,                     \* result of compute_correlation_matrix
    eigenvalues,                     \* result of np.linalg.eigh (values)
    eigenvectors,                    \* result of np.linalg.eigh (vectors)
    T_cor,                           \* correlation threshold p/q
    i,                               \* anchor of reduced_correlation_matrix_analysis
    identically_correlated_subsets,  \* groups built so far / handed to the selector
    subset_pos,                      \* number of subsets selection_scheme has consumed
    selected_objectives,             \* representatives
    obj_pos,                         \* number of representatives compute_error has consumed
    remaining_indices,               \* compute_error's last remaining_indices
    errors,                          \* loss report
    threshold,                       \* variance threshold p/q of eigenvalue_analysis
    significant_components,          \* result of eigenvalue_analysis
    stdout,                          \* what main has printed, in order
    calls,                           \* the functions main has called, in order
    returned                         \* names of the artifacts main has returned

vars ==
    << pc, exception, data, corr_matrix, eigenvalues, eigenvectors, T_cor, i,
       identically_correlated_subsets, subset_pos, selected_objectives, obj_pos,
       remaining_indices, errors, threshold, significant_components, stdout, calls,
       returned >>

----------------------------------------------------------------------------
(* Arithmetic helpers *)

RECURSIVE SumSeq(_)
SumSeq(s) == IF s = <<>> THEN 0 ELSE Head(s) + SumSeq(Tail(s))

ToSet(s) == { s[k] : k \in 1..Len(s) }

\* the members of a set of indices as a list in increasing order: what a loop
\* or comprehension over range(n) that keeps the members of S builds
RECURSIVE Ascending(_)
Ascending(S) ==
    IF S = {} THEN <<>>
    ELSE LET lo == CHOOSE x \in S : \A y \in S : x <= y
         IN  <<lo>> \o Ascending(S \ {lo})

NaN == [num |-> 0, den2 |-> 0]

IsNaN(e) == e.den2 = 0

\* c / sqrt(v1 * v2); 0/0 is NaN
Quot(c, v1, v2) == IF v1 * v2 = 0 THEN NaN ELSE [num |-> c, den2 |-> v1 * v2]

\* largest r with r * r <= x
RECURSIVE ISqrtFrom(_, _)
ISqrtFrom(x, r) == IF (r + 1) * (r + 1) > x THEN r ELSE ISqrtFrom(x, r + 1)

ISqrt(x) == ISqrtFrom(x, 0)

----------------------------------------------------------------------------
(* numpy arrays *)

NoArray == [ndim |-> -1, n |-> 0, at |-> <<>>, scalar |-> NaN]

Array0(e) == [ndim |-> 0, n |-> 0, at |-> <<>>, scalar |-> e]

Array2(m) == [ndim |-> 2, n |-> Cardinality(DOMAIN m), at |-> m, scalar |-> NaN]

NumCols(d) == Cardinality(DOMAIN d)

\* np.cov up to the common factor 1 / (m * (m - 1)), which np.corrcoef cancels
Cov(x, y) ==
    Len(x) * SumSeq([k \in 1..Len(x) |-> x[k] * y[k]]) - SumSeq(x) * SumSeq(y)

\* np.corrcoef(data, rowvar=False): one variable gives the 0-d array c / c,
\* no variable the empty 0 x 0 array, otherwise c[a,b] / sqrt(c[a,a] * c[b,b])
compute_correlation_matrix(d) ==
    IF NumCols(d) = 1
    THEN Array0(Quot(Cov(d[0], d[0]), Cov(d[0], d[0]), Cov(d[0], d[0])))
    ELSE Array2([a \in DOMAIN d |->
                    [b \in DOMAIN d |-> Quot(Cov(d[a], d[b]), Cov(d[a], d[a]), Cov(d[b], d[b]))]])

----------------------------------------------------------------------------
(* reduced_correlation_matrix_analysis *)

\* np.abs(x) >= T for x = num / sqrt(den2) and T = p / q; false for NaN
AbsGeqNoAbs(e, T) ==
    /\ ~IsNaN(e)
    /\ \/ T.p <= 0
       \/ e.num >= 0 /\ e.num * e.num * T.q * T.q >= T.p * T.p * e.den2

AbsGeq(e, T) ==
    /\ ~IsNaN(e)
    /\ \/ T.p <= 0
       \/ e.num * e.num * T.q * T.q >= T.p * T.p * e.den2

\* subset = [i] followed by every j != i that reaches the threshold, j ascending
Subset(corr, anchor, T) ==
    <<anchor>> \o Ascending({ j \in 0..(corr.n - 1) : anchor # j /\ AbsGeq(corr.at[anchor][j], T) })

\* subset not in identically_correlated_subsets, comparing the members and not
\* the lists
NotInAsSets(subset, subsets) == \A k \in 1..Len(subsets) : ToSet(subsets[k]) # ToSet(subset)

\* subset not in identically_correlated_subsets: list equality
NotIn(subset, subsets) == \A k \in 1..Len(subsets) : subsets[k] # subset

RcmIter ==
    /\ pc = "rcm"
    /\ i < corr_matrix.n
    /\ identically_correlated_subsets' =
           IF NotIn(Subset(corr_matrix, i, T_cor), identically_correlated_subsets)
           THEN Append(identically_correlated_subsets, Subset(corr_matrix, i, T_cor))
           ELSE identically_correlated_subsets
    /\ i' = i + 1
    /\ UNCHANGED << pc, exception, data, corr_matrix, eigenvalues, eigenvectors, T_cor,
                    subset_pos, selected_objectives, obj_pos, remaining_indices, errors,
                    threshold, significant_components, stdout, calls, returned >>

RcmReturn ==
    /\ pc = "rcm"
    /\ i >= corr_matrix.n
    /\ pc' = "rcm_ret"
    /\ UNCHANGED << exception, data, corr_matrix, eigenvalues, eigenvectors, T_cor, i,
                    identically_correlated_subsets, subset_pos, selected_objectives,
                    obj_pos, remaining_indices, errors, threshold,
                    significant_components, stdout, calls, returned >>

----------------------------------------------------------------------------
(* The group finder on its own: every symmetric similarity matrix with unit *)
(* diagonal over 1..MaxObj objectives, every threshold of CorThresholds.    *)

NoEigen == [nan |-> FALSE, n |-> 0, at |-> <<>>]

NoThreshold == [p |-> 0, q |-> 1]

SimilarityMatrices(n) ==
    { Array2([a \in 0..(n - 1) |-> [b \in 0..(n - 1) |->
                 IF a = b THEN [num |-> 2, den2 |-> 4]
                 ELSE IF a < b THEN upper[<<a, b>>] ELSE upper[<<b, a>>]]]) :
        upper \in [{ <<a, b>> \in (0..(n - 1)) \X (0..(n - 1)) : a < b } -> SimValues] }

InitGroups ==
    /\ pc = "rcm"
    /\ exception = "none"
    /\ data = <<>>
    /\ \E n \in 1..MaxObj : corr_matrix \in SimilarityMatrices(n)
    /\ eigenvalues = NoEigen
    /\ eigenvectors = NoEigen
    /\ T_cor \in CorThresholds
    /\ i = 0
    /\ identically_correlated_subsets = <<>>
    /\ subset_pos = 0
    /\ selected_objectives = <<>>
    /\ obj_pos = 0
    /\ remaining_indices = <<>>
    /\ errors = <<>>
    /\ threshold = NoThreshold
    /\ significant_components = <<>>
    /\ stdout = <<>>
    /\ calls = <<>>
    /\ returned = {}

NextGroups == RcmIter \/ RcmReturn

SpecGroups == InitGroups /\ [][NextGroups]_vars

Abs(x) == IF x < 0 THEN -x ELSE x

\* |e| >= T for an entry whose den2 is a perfect square (every entry of
\* SimilarityMatrices), written on the values and not on their squares
ReachesThreshold(e, T) == Abs(e.num) * T.q >= T.p * ISqrt(e.den2)

\* the members the group of an anchor is to have
AnchorMembers(corr, a, T) ==
    {a} \cup { j \in 0..(corr.n - 1) : j # a /\ ReachesThreshold(corr.at[a][j], T) }

\* C1: while and after reduced_correlation_matrix_analysis runs, the anchors
\* 0..i-1 have been visited in index order; every group of the result starts
\* with the anchor that produced it and holds exactly that anchor and every
\* other j with |similarity[anchor,j]| >= T_cor, each once and nothing else;
\* every visited anchor's member set is in the result; and the groups stand in
\* increasing order of their anchors.
GroupsAreAnchorGroups ==
    pc \in {"rcm", "rcm_ret"} =>
        /\ i \in 0..corr_matrix.n
        /\ pc = "rcm_ret" => i = corr_matrix.n
        /\ \A a \in 0..(i - 1) :
               \E k \in 1..Len(identically_correlated_subsets) :
                   ToSet(identically_correlated_subsets[k]) = AnchorMembers(corr_matrix, a, T_cor)
        /\ \A k \in 1..Len(identically_correlated_subsets) :
               LET g == identically_correlated_subsets[k]
               IN  /\ Head(g) \in 0..(i - 1)
                   /\ ToSet(g) = AnchorMembers(corr_matrix, Head(g), T_cor)
                   /\ Len(g) = Cardinality(ToSet(g))
        /\ \A k1, k2 \in 1..Len(identically_correlated_subsets) :
               k1 < k2 => Head(identically_correlated_subsets[k1])
                              < Head(identically_correlated_subsets[k2])

\* C1 witness: the finder has returned on three objectives where one pair is
\* grouped through a negative similarity, one pair sits exactly on the
\* threshold and one pair stays below it.
GroupsWitness ==
    /\ pc = "rcm_ret"
    /\ corr_matrix.n = 3
    /\ T_cor = [p |-> 1, q |-> 2]
    /\ corr_matrix.at[0][1] = [num |-> -2, den2 |-> 4]
    /\ corr_matrix.at[0][2] = [num |-> 0, den2 |-> 4]
    /\ corr_matrix.at[1][2] = [num |-> 1, den2 |-> 4]
    /\ identically_correlated_subsets = << <<0, 1>>, <<1, 0, 2>>, <<2, 1>> >>

\* C2: after reduced_correlation_matrix_analysis has returned, no two groups
\* of the result contain the same set of objective indices.
NoTwoGroupsWithSameMembers ==
    pc = "rcm_ret" =>
        \A k1, k2 \in 1..Len(identically_correlated_subsets) :
            k1 # k2 => ToSet(identically_correlated_subsets[k1])
                           # ToSet(identically_correlated_subsets[k2])


----------------------------------------------------------------------------
(* selection_scheme *)

\* A possibly-NaN number
Num(v) == [nan |-> FALSE, v |-> v]

NumNaN == [nan |-> TRUE, v |-> 0]

\* eigenvectors[:, subset]: every row, the columns the subset names, in its order
SubsetEigenvectors(ev, subset) ==
    [r \in 0..(ev.n - 1) |-> [c \in 1..Len(subset) |-> ev.at[r][subset[c]]]]

\* np.var of a list, times the square of its length (the same factor for
\* every row of one slice)
VarTimesLenSquared(x) ==
    Len(x) * SumSeq([k \in 1..Len(x) |-> x[k] * x[k]]) - SumSeq(x) * SumSeq(x)

\* np.sum(np.var(subset_eigenvectors, axis=1)): the variance of each row
\* across the subset's columns, summed over the rows into one number
SubsetVariance(ev, subset) ==
    IF ev.nan THEN NumNaN
    ELSE Num(SumSeq([r \in 1..ev.n |->
                        VarTimesLenSquared(SubsetEigenvectors(ev, subset)[r - 1])]))

\* x is at least y in np.argmax's order, where NaN counts as the maximum
ArgGeq(x, y) == x.nan \/ (~y.nan /\ x.v >= y.v)

\* np.argmax of a flattened array: the first 0-based position of the maximum
ArgMax(flat) ==
    CHOOSE k \in 0..(Len(flat) - 1) :
        /\ \A m \in 0..(Len(flat) - 1) : ArgGeq(flat[k + 1], flat[m + 1])
        /\ \A m \in 0..(k - 1) : ~ArgGeq(flat[m + 1], flat[k + 1])

\* subset[np.argmax(subset_variance)] without the subset[...] lookup
MostSignificantPosition(ev, subset) == ArgMax(<<SubsetVariance(ev, subset)>>)

\* subset[np.argmax(subset_variance)]: subset_variance is 0-d, so np.argmax
\* sees the one-element flattened array
MostSignificant(ev, subset) == subset[ArgMax(<<SubsetVariance(ev, subset)>>) + 1]

\* One pass of the loop over the subsets that also sorts the consumed subset in
\* place
SelIterSorting ==
    /\ pc = "sel"
    /\ subset_pos < Len(identically_correlated_subsets)
    /\ selected_objectives' =
           Append(selected_objectives,
                  MostSignificant(eigenvectors, identically_correlated_subsets[subset_pos + 1]))
    /\ identically_correlated_subsets' =
           [identically_correlated_subsets EXCEPT
               ![subset_pos + 1] = Ascending(ToSet(identically_correlated_subsets[subset_pos + 1]))]
    /\ subset_pos' = subset_pos + 1
    /\ UNCHANGED << pc, exception, data, corr_matrix, eigenvalues, eigenvectors, T_cor, i,
                    obj_pos, remaining_indices, errors,
                    threshold, significant_components, stdout, calls, returned >>

SelIter ==
    /\ pc = "sel"
    /\ subset_pos < Len(identically_correlated_subsets)
    /\ selected_objectives' =
           Append(selected_objectives,
                  MostSignificant(eigenvectors, identically_correlated_subsets[subset_pos + 1]))
    /\ subset_pos' = subset_pos + 1
    /\ UNCHANGED << pc, exception, data, corr_matrix, eigenvalues, eigenvectors, T_cor, i,
                    identically_correlated_subsets, obj_pos, remaining_indices, errors,
                    threshold, significant_components, stdout, calls, returned >>

SelReturn ==
    /\ pc = "sel"
    /\ subset_pos >= Len(identically_correlated_subsets)
    /\ pc' = "sel_ret"
    /\ UNCHANGED << exception, data, corr_matrix, eigenvalues, eigenvectors, T_cor, i,
                    identically_correlated_subsets, subset_pos, selected_objectives,
                    obj_pos, remaining_indices, errors, threshold,
                    significant_components, stdout, calls, returned >>

----------------------------------------------------------------------------
(* The selector on its own: up to MaxGroups groups over 1..MaxObj          *)
(* objectives, each an anchor followed by other indices in increasing      *)
(* order (the lists the group finder builds, overlapping or not), and an   *)
(* eigenvector matrix with orthogonal columns of equal norm.               *)

\* Largest number of groups handed to the selector.
MaxGroups == 2

Eigenvectors(m) == [nan |-> FALSE, n |-> Cardinality(DOMAIN m), at |-> m]

\* the identity, and n times the reflection I - 2 v v^T / n whose v has -1 at
\* position a and 1 elsewhere (a = n: 1 everywhere): integer matrices with
\* orthogonal columns of equal norm, so proportional to orthonormal ones
EigenvectorPool(n) ==
    { Eigenvectors([r \in 0..(n - 1) |-> [c \in 0..(n - 1) |-> IF r = c THEN 1 ELSE 0]]) }
      \cup { Eigenvectors([r \in 0..(n - 1) |-> [c \in 0..(n - 1) |->
                 (IF r = c THEN n ELSE 0)
                     - 2 * (IF r = a THEN -1 ELSE 1) * (IF c = a THEN -1 ELSE 1)]]) :
             a \in 0..n }

AnchoredGroups(n) ==
    { <<a>> \o Ascending(S) : a \in 0..(n - 1), S \in SUBSET (0..(n - 1)) } \
        { g \in { <<a>> \o Ascending(S) : a \in 0..(n - 1), S \in SUBSET (0..(n - 1)) } :
            Len(g) # Cardinality(ToSet(g)) }

SeqsUpTo(S, len) == UNION { [1..m -> S] : m \in 0..len }

InitSelect ==
    /\ pc = "sel"
    /\ exception = "none"
    /\ data = <<>>
    /\ corr_matrix = NoArray
    /\ eigenvalues = NoEigen
    /\ \E n \in 1..MaxObj :
           /\ eigenvectors \in EigenvectorPool(n)
           /\ identically_correlated_subsets \in SeqsUpTo(AnchoredGroups(n), MaxGroups)
    /\ T_cor = NoThreshold
    /\ i = 0
    /\ subset_pos = 0
    /\ selected_objectives = <<>>
    /\ obj_pos = 0
    /\ remaining_indices = <<>>
    /\ errors = <<>>
    /\ threshold = NoThreshold
    /\ significant_components = <<>>
    /\ stdout = <<>>
    /\ calls = <<>>
    /\ returned = {}

NextSelect == SelIter \/ SelReturn

SpecSelect == InitSelect /\ [][NextSelect]_vars

\* an objective's own loadings: its column of the eigenvector matrix
Loadings(ev, obj) == [r \in 1..ev.n |-> ev.at[r - 1][obj]]

\* the variance of an objective's own loadings (times n squared)
ObjectiveScore(ev, obj) == VarTimesLenSquared(Loadings(ev, obj))

\* the first member of the group, in the group's order, with the highest score
BestMember(ev, g) ==
    g[CHOOSE k \in 1..Len(g) :
          /\ \A m \in 1..Len(g) : ObjectiveScore(ev, g[k]) >= ObjectiveScore(ev, g[m])
          /\ \A m \in 1..(k - 1) : ObjectiveScore(ev, g[m]) < ObjectiveScore(ev, g[k])]

\* C3: after selection_scheme has returned, the representative of every group
\* is the group member whose own loadings have the highest variance, the first
\* such member in the group's order when several tie.
RepresentativeHasHighestVariance ==
    pc = "sel_ret" =>
        \A k \in 1..Len(identically_correlated_subsets) :
            selected_objectives[k] = BestMember(eigenvectors, identically_correlated_subsets[k])

\* C4: selection_scheme has appended one index per consumed group, in group
\* order, each a member of its group; after it has returned there is exactly
\* one index per group.
OneMemberPerGroup ==
    pc \in {"sel", "sel_ret"} =>
        /\ Len(selected_objectives) = subset_pos
        /\ subset_pos <= Len(identically_correlated_subsets)
        /\ pc = "sel_ret" => Len(selected_objectives) = Len(identically_correlated_subsets)
        /\ \A k \in 1..Len(selected_objectives) :
               selected_objectives[k] \in ToSet(identically_correlated_subsets[k])

\* C4 witness: the selector has returned on two overlapping groups, neither of
\* which contains objective 0.
OverlappingGroupsWitness ==
    /\ pc = "sel_ret"
    /\ identically_correlated_subsets = << <<1, 2>>, <<2, 1>> >>
    /\ selected_objectives = <<1, 2>>


----------------------------------------------------------------------------
(* eigenvalue_analysis *)

\* np.cumsum(eigenvalues / total_variance)[k] >= threshold, for 0-based k and
\* threshold p/q; dividing by a zero total gives NaN, which reaches nothing
CumulativeReaches(ev, k, thr) ==
    LET total == SumSeq([m \in 1..ev.n |-> ev.at[m - 1]])
        cum   == SumSeq([m \in 1..(k + 1) |-> ev.at[m - 1]])
    IN  /\ ~ev.nan
        /\ total # 0
        /\ IF total > 0 THEN thr.q * cum >= thr.p * total
                        ELSE thr.q * cum <= thr.p * total

\* np.where(cumulative_variance_ratio >= threshold)[0] + 1
eigenvalue_analysis(ev, thr) ==
    LET where == Ascending({ k \in 0..(ev.n - 1) : CumulativeReaches(ev, k, thr) })
    IN  [m \in 1..Len(where) |-> where[m] + 1]

EigenvalueAnalysis ==
    /\ pc = "eva"
    /\ significant_components' = eigenvalue_analysis(eigenvalues, threshold)
    /\ pc' = "eva_ret"
    /\ UNCHANGED << exception, data, corr_matrix, eigenvalues, eigenvectors, T_cor, i,
                    identically_correlated_subsets, subset_pos, selected_objectives,
                    obj_pos, remaining_indices, errors, threshold, stdout, calls, returned >>

----------------------------------------------------------------------------
(* The variance analyzer on its own: 1..MaxObj eigenvalues in 0..MaxEigen, *)
(* in every order, and the thresholds 1/2, 0.95 (the default) and 1.       *)

\* Largest eigenvalue handed to the variance analyzer.
MaxEigen == 2

VarThresholds == { [p |-> 1, q |-> 2], [p |-> 19, q |-> 20], [p |-> 1, q |-> 1] }

Eigenvalues(f) == [nan |-> FALSE, n |-> Cardinality(DOMAIN f), at |-> f]

InitVariance ==
    /\ pc = "eva"
    /\ exception = "none"
    /\ data = <<>>
    /\ corr_matrix = NoArray
    /\ \E n \in 1..MaxObj :
           \E f \in [0..(n - 1) -> 0..MaxEigen] : eigenvalues = Eigenvalues(f)
    /\ eigenvectors = NoEigen
    /\ T_cor = NoThreshold
    /\ i = 0
    /\ identically_correlated_subsets = <<>>
    /\ subset_pos = 0
    /\ selected_objectives = <<>>
    /\ obj_pos = 0
    /\ remaining_indices = <<>>
    /\ errors = <<>>
    /\ threshold \in VarThresholds
    /\ significant_components = <<>>
    /\ stdout = <<>>
    /\ calls = <<>>
    /\ returned = {}

NextVariance == EigenvalueAnalysis

SpecVariance == InitVariance /\ [][NextVariance]_vars

\* the eigenvalue of the component with 1-based index c
EigenvalueOf(ev, c) == ev.at[c - 1]

\* C5: for non-negative eigenvalues with positive sum, the result of
\* eigenvalue_analysis lists distinct component indices (1-based) in decreasing
\* order of eigenvalue, they are the largest eigenvalues (none left out is
\* larger than one listed), their share of the sum of all eigenvalues reaches
\* the threshold, and without the last of them it does not.
SmallestPrefixInDecreasingOrder ==
    (pc = "eva_ret" /\ SumSeq([m \in 1..eigenvalues.n |-> eigenvalues.at[m - 1]]) > 0) =>
        LET res   == significant_components
            total == SumSeq([m \in 1..eigenvalues.n |-> eigenvalues.at[m - 1]])
            share(len) == SumSeq([m \in 1..len |-> EigenvalueOf(eigenvalues, res[m])])
        IN  /\ Len(res) >= 1
            /\ ToSet(res) \subseteq 1..eigenvalues.n
            /\ Cardinality(ToSet(res)) = Len(res)
            /\ \A m \in 1..(Len(res) - 1) :
                   EigenvalueOf(eigenvalues, res[m]) >= EigenvalueOf(eigenvalues, res[m + 1])
            /\ \A c \in ToSet(res) : \A d \in (1..eigenvalues.n) \ ToSet(res) :
                   EigenvalueOf(eigenvalues, c) >= EigenvalueOf(eigenvalues, d)
            /\ threshold.q * share(Len(res)) >= threshold.p * total
            /\ threshold.q * share(Len(res) - 1) < threshold.p * total


----------------------------------------------------------------------------
(* compute_error *)

\* [i for i in range(data.shape[1]) if i != obj_index] without the filter
AllIndices(n, obj_index) == Ascending(0..(n - 1))

\* [i for i in range(data.shape[1]) if i != obj_index]
RemainingIndices(n, obj_index) == Ascending({ c \in 0..(n - 1) : c # obj_index })

\* data[:, remaining_indices]
ReducedData(d, remaining) == [k \in 0..(Len(remaining) - 1) |-> d[remaining[k + 1]]]

\* one diagonal entry c / sqrt(v * v) of a correlation matrix
DiagValue(e) == e.num \div ISqrt(e.den2)

\* np.trace of a 2-d array: the sum of the diagonal, NaN as soon as one entry is
Trace(arr) ==
    IF \E a \in 0..(arr.n - 1) : IsNaN(arr.at[a][a])
    THEN NumNaN
    ELSE Num(SumSeq([a \in 1..arr.n |-> DiagValue(arr.at[a - 1][a - 1])]))

\* One pass of the loop over selected_objectives.  np.trace raises ValueError
\* on the 0-d array that np.corrcoef returns for a single remaining column.
ErrIter ==
    /\ pc = "err"
    /\ obj_pos < Len(selected_objectives)
    /\ LET obj_index == selected_objectives[obj_pos + 1]
           remaining == RemainingIndices(NumCols(data), obj_index)
           reduced_correlation_matrix ==
               compute_correlation_matrix(ReducedData(data, remaining))
       IN  /\ remaining_indices' = remaining
           /\ IF reduced_correlation_matrix.ndim = 2
              THEN /\ errors' = Append(errors, Trace(reduced_correlation_matrix))
                   /\ obj_pos' = obj_pos + 1
                   /\ UNCHANGED << pc, exception >>
              ELSE /\ pc' = "raised"
                   /\ exception' = "ValueError"
                   /\ UNCHANGED << errors, obj_pos >>
    /\ UNCHANGED << data, corr_matrix, eigenvalues, eigenvectors, T_cor, i,
                    identically_correlated_subsets, subset_pos, selected_objectives,
                    threshold, significant_components, stdout, calls, returned >>

ErrReturn ==
    /\ pc = "err"
    /\ obj_pos >= Len(selected_objectives)
    /\ pc' = "err_ret"
    /\ UNCHANGED << exception, data, corr_matrix, eigenvalues, eigenvectors, T_cor, i,
                    identically_correlated_subsets, subset_pos, selected_objectives,
                    obj_pos, remaining_indices, errors, threshold,
                    significant_components, stdout, calls, returned >>

----------------------------------------------------------------------------
(* The loss estimator on its own: every sample matrix of 1..MaxObj columns *)
(* of ObjectiveColumns and up to MaxReps representatives among its         *)
(* objectives, in any order and with repetitions.                          *)

\* Largest number of representatives handed to the loss estimator.
MaxReps == 2

SampleMatrices(n) == [0..(n - 1) -> ObjectiveColumns]

InitLoss ==
    /\ pc = "err"
    /\ exception = "none"
    /\ \E n \in 1..MaxObj :
           /\ data \in SampleMatrices(n)
           /\ selected_objectives \in SeqsUpTo(0..(n - 1), MaxReps)
    /\ corr_matrix = NoArray
    /\ eigenvalues = NoEigen
    /\ eigenvectors = NoEigen
    /\ T_cor = NoThreshold
    /\ i = 0
    /\ identically_correlated_subsets = <<>>
    /\ subset_pos = 0
    /\ obj_pos = 0
    /\ remaining_indices = <<>>
    /\ errors = <<>>
    /\ threshold = NoThreshold
    /\ significant_components = <<>>
    /\ stdout = <<>>
    /\ calls = <<>>
    /\ returned = {}

NextLoss == ErrIter \/ ErrReturn

SpecLoss == InitLoss /\ [][NextLoss]_vars

\* a column whose samples are all equal has zero variance
ZeroVariance(col) == \A k \in 1..Len(col) : col[k] = col[1]

NoZeroVarianceColumn(d) == \A c \in DOMAIN d : ~ZeroVariance(d[c])

\* C6: on a sample matrix with at least 3 objectives and no zero-variance
\* column compute_error does not raise, its report has one entry per consumed
\* representative (as many as representatives once it has returned), every
\* entry is the trace of the correlation matrix of the other n - 1 columns,
\* which is n - 1, and the columns kept for the last representative are all
\* columns but that representative's, each once.
LossIsTraceOfOtherColumns ==
    (pc \in {"err", "err_ret", "raised"} /\ NumCols(data) >= 3 /\ NoZeroVarianceColumn(data)) =>
        /\ pc # "raised"
        /\ Len(errors) = obj_pos
        /\ pc = "err_ret" => Len(errors) = Len(selected_objectives)
        /\ \A k \in 1..Len(errors) : errors[k] = Num(NumCols(data) - 1)
        /\ obj_pos > 0 =>
               /\ ToSet(remaining_indices) = DOMAIN data \ {selected_objectives[obj_pos]}
               /\ Len(remaining_indices) = NumCols(data) - 1

\* C6 witness: compute_error has returned the report of two representatives of
\* a three-objective sample matrix without constant column.
LossWitness ==
    /\ pc = "err_ret"
    /\ NumCols(data) = 3
    /\ NoZeroVarianceColumn(data)
    /\ selected_objectives = <<2, 0>>
    /\ errors = <<Num(2), Num(2)>>


----------------------------------------------------------------------------
(* main *)

\* T_correlation = 0.5
T_correlation == [p |-> 1, q |-> 2]

HasNaN(arr) ==
    \/ arr.ndim = 0 /\ IsNaN(arr.scalar)
    \/ \E a, b \in 0..(arr.n - 1) : IsNaN(arr.at[a][b])

\* eigenvalues of an n x n correlation matrix as np.linalg.eigh returns them,
\* up to scale and rounding: non-negative, in ascending order, summing to the
\* trace n
AscendingSpectra(n) ==
    { Eigenvalues(f) :
        f \in { g \in [0..(n - 1) -> 0..n] :
                  /\ \A k \in 0..(n - 2) : g[k] <= g[k + 1]
                  /\ SumSeq([m \in 1..n |-> g[m - 1]]) = n } }

NaNEigen(n) == [nan |-> TRUE, n |-> n, at |-> <<>>]

\* corr_matrix = compute_correlation_matrix(data)
MainCorrelation ==
    /\ pc = "main"
    /\ corr_matrix' = compute_correlation_matrix(data)
    /\ calls' = Append(calls, "compute_correlation_matrix")
    /\ pc' = "main_eigh"
    /\ UNCHANGED << exception, data, eigenvalues, eigenvectors, T_cor, i,
                    identically_correlated_subsets, subset_pos, selected_objectives,
                    obj_pos, remaining_indices, errors, threshold,
                    significant_components, stdout, returned >>

\* eigenvalues, eigenvectors = compute_eigenvalues_and_eigenvectors(corr_matrix).
\* np.linalg.eigh raises LinAlgError on a 0-d array.  Its numeric result is not
\* computed here: any ascending spectrum and any matrix of EigenvectorPool may
\* come back.  On a matrix with NaN entries the LAPACK build decides between
\* LinAlgError (no convergence) and all-NaN results.
MainEigh ==
    /\ pc = "main_eigh"
    /\ calls' = Append(calls, "compute_eigenvalues_and_eigenvectors")
    /\ \/ /\ corr_matrix.ndim = 2 /\ ~HasNaN(corr_matrix)
          /\ eigenvalues' \in AscendingSpectra(corr_matrix.n)
          /\ eigenvectors' \in EigenvectorPool(corr_matrix.n)
          /\ pc' = "main_rcm"
          /\ UNCHANGED exception
       \/ /\ corr_matrix.ndim = 2 /\ HasNaN(corr_matrix)
          /\ eigenvalues' = NaNEigen(corr_matrix.n)
          /\ eigenvectors' = NaNEigen(corr_matrix.n)
          /\ pc' = "main_rcm"
          /\ UNCHANGED exception
       \/ /\ corr_matrix.ndim = 0 \/ HasNaN(corr_matrix)
          /\ pc' = "raised"
          /\ exception' = "LinAlgError"
          /\ UNCHANGED << eigenvalues, eigenvectors >>
    /\ UNCHANGED << data, corr_matrix, T_cor, i, identically_correlated_subsets,
                    subset_pos, selected_objectives, obj_pos, remaining_indices, errors,
                    threshold, significant_components, stdout, returned >>

\* identically_correlated_subsets = reduced_correlation_matrix_analysis(
\*     corr_matrix, eigenvalues, eigenvectors, T_correlation): the call
MainCallGroups ==
    /\ pc = "main_rcm"
    /\ T_cor' = T_correlation
    /\ i' = 0
    /\ identically_correlated_subsets' = <<>>
    /\ calls' = Append(calls, "reduced_correlation_matrix_analysis")
    /\ pc' = "rcm"
    /\ UNCHANGED << exception, data, corr_matrix, eigenvalues, eigenvectors, subset_pos,
                    selected_objectives, obj_pos, remaining_indices, errors, threshold,
                    significant_components, stdout, returned >>

\* the subsets are printed and handed to compute_error at once, without
\* selection_scheme
MainSkipSelection ==
    /\ pc = "rcm_ret"
    /\ stdout' = Append(stdout, "Identically Correlated Subsets")
    /\ errors' = <<>>
    /\ obj_pos' = 0
    /\ calls' = Append(calls, "compute_error")
    /\ pc' = "err"
    /\ UNCHANGED << exception, data, corr_matrix, eigenvalues, eigenvectors, T_cor, i,
                    identically_correlated_subsets, subset_pos, selected_objectives,
                    remaining_indices, threshold, significant_components, returned >>

\* print the subsets; selected_objectives = selection_scheme(
\*     identically_correlated_subsets, eigenvectors): the call
MainCallSelection ==
    /\ pc = "rcm_ret"
    /\ stdout' = Append(stdout, "Identically Correlated Subsets")
    /\ selected_objectives' = <<>>
    /\ subset_pos' = 0
    /\ calls' = Append(calls, "selection_scheme")
    /\ pc' = "sel"
    /\ UNCHANGED << exception, data, corr_matrix, eigenvalues, eigenvectors, T_cor, i,
                    identically_correlated_subsets, obj_pos, remaining_indices, errors,
                    threshold, significant_components, returned >>

\* print the selected objectives; errors = compute_error(data,
\*     selected_objectives): the call
MainCallError ==
    /\ pc = "sel_ret"
    /\ stdout' = Append(stdout, "Selected Objectives")
    /\ errors' = <<>>
    /\ obj_pos' = 0
    /\ calls' = Append(calls, "compute_error")
    /\ pc' = "err"
    /\ UNCHANGED << exception, data, corr_matrix, eigenvalues, eigenvectors, T_cor, i,
                    identically_correlated_subsets, subset_pos, selected_objectives,
                    remaining_indices, threshold, significant_components, returned >>

\* print the errors; main ends without a return statement
MainFinish ==
    /\ pc = "err_ret"
    /\ stdout' = Append(stdout, "Errors Associated with Selected Objectives")
    /\ returned' = {}
    /\ pc' = "done"
    /\ UNCHANGED << exception, data, corr_matrix, eigenvalues, eigenvectors, T_cor, i,
                    identically_correlated_subsets, subset_pos, selected_objectives,
                    obj_pos, remaining_indices, errors, threshold,
                    significant_components, calls >>

Init ==
    /\ pc = "main"
    /\ exception = "none"
    /\ \E n \in 1..MaxObj : data \in SampleMatrices(n)
    /\ corr_matrix = NoArray
    /\ eigenvalues = NoEigen
    /\ eigenvectors = NoEigen
    /\ T_cor = NoThreshold
    /\ i = 0
    /\ identically_correlated_subsets = <<>>
    /\ subset_pos = 0
    /\ selected_objectives = <<>>
    /\ obj_pos = 0
    /\ remaining_indices = <<>>
    /\ errors = <<>>
    /\ threshold = NoThreshold
    /\ significant_components = <<>>
    /\ stdout = <<>>
    /\ calls = <<>>
    /\ returned = {}

Next ==
    \/ MainCorrelation
    \/ MainEigh
    \/ MainCallGroups
    \/ RcmIter
    \/ RcmReturn
    \/ MainCallSelection
    \/ SelIter
    \/ SelReturn
    \/ MainCallError
    \/ ErrIter
    \/ ErrReturn
    \/ MainFinish

Spec == Init /\ [][Next]_vars


----------------------------------------------------------------------------
(* Properties of whole runs of main *)

\* |Pearson correlation of x and y| >= T, from the samples; undefined (and so
\* not reached) when a column has zero variance
Correlated(x, y, T) ==
    /\ Cov(x, x) * Cov(y, y) > 0
    /\ Cov(x, y) * Cov(x, y) * T.q * T.q >= T.p * T.p * Cov(x, x) * Cov(y, y)

NoPairReachesThreshold(d, T) ==
    \A a, b \in DOMAIN d : a # b => ~Correlated(d[a], d[b], T)

\* C7: when no two distinct objectives reach the correlation threshold, the
\* run of main ends normally with the singleton groups [[0],...,[n-1]], the
\* representatives [0,...,n-1] and a loss report whose n entries all equal n-1.
IndependentObjectivesKeepAll ==
    (pc \in {"done", "raised"} /\ NoPairReachesThreshold(data, T_correlation)) =>
        /\ pc = "done"
        /\ identically_correlated_subsets = [k \in 1..NumCols(data) |-> <<k - 1>>]
        /\ selected_objectives = [k \in 1..NumCols(data) |-> k - 1]
        /\ errors = [k \in 1..NumCols(data) |-> Num(NumCols(data) - 1)]

\* C8: when an objective column has zero variance, building the correlation
\* matrix ends the run with DegenerateInputError: no similarity matrix, no
\* groups, no representatives and no loss report exist afterwards, no later
\* stage is called and nothing is printed.
ZeroVarianceColumnAborts ==
    (pc # "main" /\ \E c \in DOMAIN data : ZeroVariance(data[c])) =>
        /\ pc = "raised"
        /\ exception = "DegenerateInputError"
        /\ corr_matrix = NoArray
        /\ calls = <<"compute_correlation_matrix">>
        /\ identically_correlated_subsets = <<>>
        /\ selected_objectives = <<>>
        /\ errors = <<>>
        /\ stdout = <<>>

StageOf(p) ==
    CASE p = "main" -> 1
      [] p = "main_eigh" -> 2
      [] p \in {"main_rcm", "rcm", "rcm_ret"} -> 3
      [] p = "sel" \/ p = "sel_ret" -> 4
      [] p \in {"err", "err_ret", "done"} -> 5
      [] OTHER -> 0

StageCalls ==
    << "compute_correlation_matrix", "compute_eigenvalues_and_eigenvectors",
       "reduced_correlation_matrix_analysis", "selection_scheme", "compute_error" >>

InputsNeverChange ==
    [][ /\ data' = data
        /\ pc # "main" => corr_matrix' = corr_matrix
        /\ pc \notin {"main", "main_eigh"} => eigenvectors' = eigenvectors
        /\ pc \in {"sel", "sel_ret", "err", "err_ret", "done"} =>
               identically_correlated_subsets' = identically_correlated_subsets ]_vars

\* C10 witness: a run has ended normally after the finder built a group of
\* several members that does not stand in increasing order, the selector chose
\* among them and the estimator dropped columns.
StagesRanOnOverlappingGroupsWitness ==
    /\ pc = "done"
    /\ NumCols(data) = 3
    /\ \E k \in 1..Len(identically_correlated_subsets) :
           /\ Len(identically_correlated_subsets[k]) >= 2
           /\ identically_correlated_subsets[k][1] > identically_correlated_subsets[k][2]
    /\ Len(remaining_indices) = 2


----------------------------------------------------------------------------
(* The group finder followed by the selector, as main chains them, on      *)
(* every similarity matrix of SimilarityMatrices, every threshold of       *)
(* CorThresholds and every eigenvector matrix of EigenvectorPool.          *)

InitReduce ==
    /\ pc = "rcm"
    /\ exception = "none"
    /\ data = <<>>
    /\ \E n \in 1..MaxObj :
           /\ corr_matrix \in SimilarityMatrices(n)
           /\ eigenvectors \in EigenvectorPool(n)
    /\ eigenvalues = NoEigen
    /\ T_cor \in CorThresholds
    /\ i = 0
    /\ identically_correlated_subsets = <<>>
    /\ subset_pos = 0
    /\ selected_objectives = <<>>
    /\ obj_pos = 0
    /\ remaining_indices = <<>>
    /\ errors = <<>>
    /\ threshold = NoThreshold
    /\ significant_components = <<>>
    /\ stdout = <<>>
    /\ calls = <<>>
    /\ returned = {}

NextReduce == RcmIter \/ RcmReturn \/ MainCallSelection \/ SelIter \/ SelReturn

SpecReduce == InitReduce /\ [][NextReduce]_vars

\* C11: the group finder appends one group per visited anchor, the k-th group
\* starting with anchor k (counted from 0), so it returns exactly n groups
\* whatever the similarity matrix and the threshold are; the selector then
\* returns the first element of each group, so the representatives are
\* [0, 1, ..., n-1]: as many as there are objectives.
OneGroupAndRepresentativePerObjective ==
    pc \in {"rcm", "rcm_ret", "sel", "sel_ret"} =>
        /\ Len(identically_correlated_subsets) = i
        /\ \A k \in 1..Len(identically_correlated_subsets) :
               Head(identically_correlated_subsets[k]) = k - 1
        /\ pc # "rcm" => Len(identically_correlated_subsets) = corr_matrix.n
        /\ pc \in {"sel", "sel_ret"} =>
               selected_objectives = [k \in 1..subset_pos |-> k - 1]
        /\ pc = "sel_ret" =>
               /\ selected_objectives = [k \in 1..corr_matrix.n |-> k - 1]
               /\ Len(selected_objectives) = corr_matrix.n

\* C11 witness: at threshold 0 every anchor groups all three objectives; the
\* finder has kept the three lists, which have the same members, and the
\* selector has returned every objective.
SameMembersThreeGroupsWitness ==
    /\ pc = "sel_ret"
    /\ corr_matrix.n = 3
    /\ T_cor = [p |-> 0, q |-> 1]
    /\ identically_correlated_subsets = << <<0, 1, 2>>, <<1, 0, 2>>, <<2, 0, 1>> >>
    /\ selected_objectives = <<0, 1, 2>>


====
